---------------------------- MODULE Spec2Model ----------------------------
(***************************************************************************)
(* Model of the Security RAG API (src/app.py): the POST /ask handler       *)
(* (retrieve -> assemble -> generate -> respond) and the POST /load-mitre  *)
(* handler (fetch -> write ./tmp/attack.json -> parse -> extract -> add).  *)
(*                                                                         *)
(* Both handlers are plain `def` routes, so the framework runs them on a   *)
(* thread pool: two requests in flight interleave at every call that       *)
(* touches something shared (the collection, the file, the log).           *)
(*                                                                         *)
(* Strings are modelled as sequences of string pieces; concatenation and   *)
(* f-string interpolation are sequence concatenation.                      *)
(***************************************************************************)
EXTENDS Integers, Sequences, FiniteSets, TLC

VARIABLES MODEL_NAME, collection, tmpdir, file, log, started, req

vars == <<MODEL_NAME, collection, tmpdir, file, log, started, req>>

(***************************************************************************)
(* Bounds of the model.                                                    *)
(***************************************************************************)
\* Number of requests the clients send in one run.
MaxRequests == 2

\* The two requests that can be in flight at the same time.
Workers == {1, 2}

(***************************************************************************)
(* Program constants.                                                      *)
(***************************************************************************)
\* n_results=3 in collection.query
N_RESULTS == 3

\* The environments the process can be started in: MODEL_NAME unset or set.
Environments ==
    { [PATH |-> "/usr/bin"],
      [PATH |-> "/usr/bin", MODEL_NAME |-> "llama3"] }

\* os.getenv(name, default)
Getenv(env, name, default) ==
    IF name \in DOMAIN env THEN env[name] ELSE default

\* "\n\n".join(...)
SEPARATOR == "\n\n"

PROMPT_HEAD == "You are a cybersecurity expert assistant. Use the following context to answer the question.\n\n                    Context:"

PROMPT_QUESTION == "\n\n                    Question: "

PROMPT_TAIL == "\n\n                    Provide a clear, actionable answer. If the context mentions MITRE ATT&CK techniques, include the technique IDs. If discussing detection, mention specific tools or data sources.\n\n        Answer:"

(***************************************************************************)
(* Inputs: questions, STIX objects, datasets, HTTP responses.              *)
(***************************************************************************)
Questions == {"q1", "q2"}

\* The objects a bundle can hold, by name.
Objects == {"A1", "A1b", "A2", "A3", "A4", "Rev", "Dep", "Mal"}

ObjType(o) == IF o = "Mal" THEN "malware" ELSE "attack-pattern"

\* tech.id; A1 and A1b carry the same identifier.
ObjId(o) ==
    CASE o = "A1"  -> "T1"
      [] o = "A1b" -> "T1"
      [] o = "A2"  -> "T2"
      [] o = "A3"  -> "T3"
      [] o = "A4"  -> "T4"
      [] o = "Rev" -> "T5"
      [] o = "Dep" -> "T6"
      [] OTHER     -> "S1"

\* tech.name
ObjName(o) == "name-" \o o

\* tech.description
ObjDescription(o) == "description-" \o o

ObjRevoked(o) == o = "Rev"

ObjDeprecated(o) == o = "Dep"

\* The datasets the remote endpoint can serve.
Datasets ==
    { <<>>,
      <<"A1", "Rev">>,
      <<"A2", "Dep", "Mal">>,
      <<"A1", "A1b">>,
      <<"A2", "A1">> }


\* HTTP status codes the dataset endpoint can answer with.
StatusCodes == {200, 404}

\* r.content of an error page that is not a bundle.
ErrorPage == <<"404: Not Found">>

\* The bytes of a dataset: json of a bundle, as a sequence of tokens.
Encode(ds) == <<"{">> \o ds \o <<"}">>

\* The bodies the dataset endpoint can answer with.
Bodies == {Encode(ds) : ds \in Datasets} \cup {ErrorPage}

(***************************************************************************)
(* Helpers.                                                                *)
(***************************************************************************)
Min(a, b) == IF a < b THEN a ELSE b

Range(s) == {s[i] : i \in 1..Len(s)}

Injective(s) == \A i, j \in 1..Len(s) : s[i] = s[j] => i = j

RECURSIVE Join(_, _)
\* sep.join(parts)
Join(sep, parts) ==
    IF parts = <<>> THEN <<>>
    ELSE IF Len(parts) = 1 THEN Head(parts)
    ELSE Head(parts) \o <<sep>> \o Join(sep, Tail(parts))

(***************************************************************************)
(* The file ./tmp/attack.json: its bytes (empty while it does not exist),  *)
(* and whether the directory ./tmp exists.                                 *)
(***************************************************************************)
\* open(path, "wb"): the file is created or truncated.
Truncate(f) == <<>>

\* The byte of a hole: what a write beyond the end of the file leaves
\* between the old end and the written position.
Hole == "\\0"

\* One piece of f.write(content) reaching the file: token tok lands at
\* position pos of the writer's descriptor. What the file holds elsewhere
\* stays; a file that was cut shorter in the meantime gets a hole.
WriteToken(f, pos, tok) ==
    [i \in 1..(IF pos > Len(f) THEN pos ELSE Len(f)) |->
        IF i = pos THEN tok
        ELSE IF i <= Len(f) THEN f[i]
        ELSE Hole]

\* Whether the bytes are a bundle the STIX loader accepts.
WellFormed(f) ==
    /\ Len(f) >= 2
    /\ f[1] = "{"
    /\ f[Len(f)] = "}"
    /\ \A i \in 2..(Len(f) - 1) : f[i] \in Objects

\* MitreAttackData(path): the objects of the bundle in the file.
Parse(f) == SubSeq(f, 2, Len(f) - 1)

(***************************************************************************)
(* data.get_techniques(remove_revoked_deprecated=True)                     *)
(***************************************************************************)
IsTechnique(o) == ObjType(o) = "attack-pattern"

NotRevokedDeprecated(o) == ~ObjRevoked(o) /\ ~ObjDeprecated(o)

\* Whether get_techniques returns the object.
KeepTechnique(o, remove_revoked_deprecated) ==
    /\ IsTechnique(o)
    /\ remove_revoked_deprecated => NotRevokedDeprecated(o)

RECURSIVE get_techniques_unfiltered(_, _)
\* Faulty variant of get_techniques: the flag is ignored, so revoked and
\* deprecated techniques are returned too.
get_techniques_unfiltered(data, remove_revoked_deprecated) ==
    IF data = <<>> THEN <<>>
    ELSE IF IsTechnique(Head(data))
    THEN <<Head(data)>> \o get_techniques_unfiltered(Tail(data), remove_revoked_deprecated)
    ELSE get_techniques_unfiltered(Tail(data), remove_revoked_deprecated)

RECURSIVE get_techniques(_, _)
\* The attack-pattern objects of the bundle, in the bundle's order.
get_techniques(data, remove_revoked_deprecated) ==
    IF data = <<>> THEN <<>>
    ELSE IF KeepTechnique(Head(data), remove_revoked_deprecated)
    THEN <<Head(data)>> \o get_techniques(Tail(data), remove_revoked_deprecated)
    ELSE get_techniques(Tail(data), remove_revoked_deprecated)

\* f"{tech.name} ({tech.id})\n{tech.description}"
DocText(o) == <<ObjName(o), " (", ObjId(o), ")", "\n", ObjDescription(o)>>

\* The docs and ids lists the loop builds.
BuildDocs(techs) == [i \in 1..Len(techs) |-> DocText(techs[i])]

BuildIds(techs) == [i \in 1..Len(techs) |-> ObjId(techs[i])]

(***************************************************************************)
(* The knowledge store: the persistent collection "security_kb" the module *)
(* opens at import, reached through collection.query and collection.add.   *)
(* The collection is the sequence of its entries in insertion order.       *)
(***************************************************************************)
Entry(id, document) == [id |-> id, document |-> document]

Ids(coll) == {coll[i].id : i \in 1..Len(coll)}

\* The entries of one add call, in order.
Entries(documents, ids) == [i \in 1..Len(ids) |-> Entry(ids[i], documents[i])]

RECURSIVE AppendNew(_, _)
\* The collection with those entries appended whose id it does not hold.
AppendNew(coll, entries) ==
    IF entries = <<>> THEN coll
    ELSE IF Head(entries).id \in Ids(coll) THEN AppendNew(coll, Tail(entries))
    ELSE AppendNew(Append(coll, Head(entries)), Tail(entries))

Ok(value) == [ok |-> TRUE, value |-> value, error |-> ""]

Err(text) == [ok |-> FALSE, value |-> <<>>, error |-> text]

\* The store cannot be reached or fails inside (disk, embedding function).
StoreFault == Err("store unavailable")

RECURSIVE Upsert(_, _)
\* The collection with each entry written under its id: the documents held
\* under that id are replaced, an id not held is appended.
Upsert(coll, entries) ==
    IF entries = <<>> THEN coll
    ELSE LET e == Head(entries)
         IN Upsert(IF e.id \in Ids(coll)
                   THEN [i \in 1..Len(coll) |->
                            IF coll[i].id = e.id THEN e ELSE coll[i]]
                   ELSE Append(coll, e),
                   Tail(entries))

\* collection.add(documents=docs, ids=ids): the outcomes the store can
\* produce. The program passes the lists on as they are and does not say
\* what is to happen with an id that occurs twice in the batch or that the
\* collection already holds, so every policy of a store is possible: the
\* batch is refused, the repeated ids are skipped, the held documents are
\* overwritten, or the entries are kept beside the ones already there. An
\* empty batch is refused or a no-op.
CollectionAdd(coll, documents, ids) ==
    {StoreFault} \cup
    IF ids = <<>>
    THEN {Err("Expected IDs to be a non-empty list"), Ok(coll)}
    ELSE IF Injective(ids) /\ Range(ids) \cap Ids(coll) = {}
    THEN {Ok(coll \o Entries(documents, ids))}
    ELSE {Err("duplicate id"),
          Ok(AppendNew(coll, Entries(documents, ids))),
          Ok(Upsert(coll, Entries(documents, ids))),
          Ok(coll \o Entries(documents, ids))}

\* The rankings the store's similarity metric can give for n results: the
\* metric is the store's own, so every order of every choice is possible.
Rankings(coll, n) ==
    {r \in [1..Min(n, Len(coll)) -> 1..Len(coll)] : Injective(r)}

\* collection.query(query_texts=[q], n_results=n): results["documents"]
\* holds one list per query text, most similar first.
CollectionQuery(coll, q, n) ==
    {StoreFault} \cup
    {Ok(<< [i \in 1..Len(r) |-> coll[r[i]].document] >>) : r \in Rankings(coll, n)}

(***************************************************************************)
(* The generation engine: ollama.generate(model=MODEL_NAME, prompt=prompt) *)
(***************************************************************************)
Answers == {"answer-a", "answer-b"}

Generate(model, prompt) ==
    {Err("generation engine unreachable")} \cup
    {Ok([response |-> a]) : a \in Answers}

(***************************************************************************)
(* Prompt assembly in ask.                                                 *)
(***************************************************************************)
\* results["documents"][0] if results["documents"] else []
ContextDocuments(documents) ==
    IF documents # <<>> THEN documents[1] ELSE <<>>

\* Faulty variant of Context: an empty result is replaced by a placeholder
\* text.
ContextOrPlaceholder(documents) ==
    IF ContextDocuments(documents) = <<>> THEN <<"No context found.">>
    ELSE Join(SEPARATOR, ContextDocuments(documents))

\* Faulty variant of Context: only the best document is used.
ContextBestOnly(documents) ==
    IF ContextDocuments(documents) = <<>> THEN <<>>
    ELSE Head(ContextDocuments(documents))

\* "\n\n".join(...)
Context(documents) == Join(SEPARATOR, ContextDocuments(documents))

\* The f-string of the prompt.
Prompt(q, context) ==
    <<PROMPT_HEAD>> \o context \o <<PROMPT_QUESTION, q, PROMPT_TAIL>>

(***************************************************************************)
(* Requests. req[w] is the frame of the request worker w is handling: the  *)
(* handler's locals, its position, and a record of what it has done.       *)
(***************************************************************************)
NoResponse == [status |-> 0, body |-> [none |-> TRUE]]

NoFetch == [status_code |-> 0, content |-> <<>>]

Idle ==
    [kind      |-> "none",     \* "ask" or "load"
     pc        |-> "IDLE",
     trace     |-> <<>>,       \* the positions passed through, in order
     raised    |-> "",         \* str(e) of the exception that ended it
     response  |-> NoResponse,
     \* ask
     q         |-> "",
     results   |-> <<>>,       \* results["documents"]
     context   |-> <<>>,
     prompt    |-> <<>>,
     answer    |-> [response |-> ""],
     nQuery    |-> 0,          \* calls of collection.query
     nGenerate |-> 0,          \* calls of ollama.generate
     sawEmpty  |-> FALSE,      \* the collection was empty when queried
     retrieved |-> FALSE,      \* collection.query returned
     \* load-mitre
     r         |-> NoFetch,    \* the response of requests.get
     wpos      |-> 0,          \* tokens of r.content written so far
     buf       |-> <<>>,       \* tokens of the file read so far
     nFetch    |-> 0,          \* calls of requests.get
     netError  |-> FALSE,      \* requests.get raised
     data      |-> <<>>,       \* the objects MitreAttackData holds
     docs      |-> <<>>,
     ids       |-> <<>>,
     nAdd      |-> 0]          \* calls of collection.add

Terminal == {"RESPONDING", "FAILED", "RETURNED"}

Free(w) == req[w].pc \in {"IDLE"} \cup Terminal

\* A new request goes to the first free worker.
Dispatch(w) ==
    /\ started < MaxRequests
    /\ Free(w)
    /\ \A v \in Workers : v < w => ~Free(v)

Set(w, frame) == req' = [req EXCEPT ![w] = frame]

Enter(frame, state) == [frame EXCEPT !.pc = state, !.trace = Append(@, state)]

\* HTTPException(status_code=500, detail=str(e))
Http500(text) == [status |-> 500, body |-> [detail |-> text]]

\* logging.error(f"Query error: {str(e)}")
QueryErrorEntry(text) == [level |-> "ERROR", message |-> <<"Query error: ", text>>]

\* logging.info(f"Using model: {MODEL_NAME}")
StartupEntry == [level |-> "INFO", message |-> <<"Using model: ", MODEL_NAME>>]

\* Faulty variant of AskFail: the error is reported in a 200 body.
AskFailAs200(frame, text) ==
    [Enter(frame, "FAILED") EXCEPT
        !.raised = text,
        !.response = [status |-> 200,
                      body |-> [status |-> "error", message |-> text]]]

\* The except block of ask: log the error, answer 500 with its text.
AskFail(frame, text) ==
    [Enter(frame, "FAILED") EXCEPT !.raised = text, !.response = Http500(text)]

(***************************************************************************)
(* POST /ask                                                               *)
(***************************************************************************)
\* The route is called with the query parameter q.
AskStart(w) ==
    /\ Dispatch(w)
    /\ \E q \in Questions :
         Set(w, [Enter(Idle, "RECEIVED") EXCEPT !.kind = "ask", !.q = q])
    /\ started' = started + 1
    /\ UNCHANGED <<MODEL_NAME, tmpdir, collection, file, log>>

\* Faulty variant of AskRetrieve: a failed query is treated as "no context"
\* and the request goes on.
AskRetrieveLenient(w) ==
    /\ req[w].kind = "ask"
    /\ req[w].pc = "RECEIVED"
    /\ LET frame == [Enter(req[w], "RETRIEVING") EXCEPT
                        !.nQuery = @ + 1, !.sawEmpty = (collection = <<>>)]
       IN \E out \in CollectionQuery(collection, req[w].q, N_RESULTS) :
            \/ /\ out.ok
               /\ Set(w, [frame EXCEPT !.results = out.value, !.retrieved = TRUE])
            \/ /\ ~out.ok
               /\ Set(w, [frame EXCEPT !.results = <<>>])
    /\ UNCHANGED <<MODEL_NAME, tmpdir, collection, file, log, started>>

\* results = collection.query(query_texts=[q], n_results=3)
AskRetrieve(w) ==
    /\ req[w].kind = "ask"
    /\ req[w].pc = "RECEIVED"
    /\ LET frame == [Enter(req[w], "RETRIEVING") EXCEPT
                        !.nQuery = @ + 1, !.sawEmpty = (collection = <<>>)]
       IN \E out \in CollectionQuery(collection, req[w].q, N_RESULTS) :
            \/ /\ out.ok
               /\ Set(w, [frame EXCEPT !.results = out.value, !.retrieved = TRUE])
               /\ UNCHANGED log
            \/ /\ ~out.ok
               /\ Set(w, AskFail(frame, out.error))
               /\ log' = Append(log, QueryErrorEntry(out.error))
    /\ UNCHANGED <<MODEL_NAME, tmpdir, collection, file, started>>

\* context = "\n\n".join(...); prompt = f"""..."""
AskAssemble(w) ==
    /\ req[w].kind = "ask"
    /\ req[w].pc = "RETRIEVING"
    /\ LET context == Context(req[w].results)
       IN Set(w, [Enter(req[w], "ASSEMBLING") EXCEPT
                     !.context = context,
                     !.prompt = Prompt(req[w].q, context)])
    /\ UNCHANGED <<MODEL_NAME, tmpdir, collection, file, log, started>>

\* answer = ollama.generate(model=MODEL_NAME, prompt=prompt)
AskGenerate(w) ==
    /\ req[w].kind = "ask"
    /\ req[w].pc = "ASSEMBLING"
    /\ LET frame == [Enter(req[w], "GENERATING") EXCEPT !.nGenerate = @ + 1]
       IN \E out \in Generate(MODEL_NAME, req[w].prompt) :
            \/ /\ out.ok
               /\ Set(w, [frame EXCEPT !.answer = out.value])
               /\ UNCHANGED log
            \/ /\ ~out.ok
               /\ Set(w, AskFail(frame, out.error))
               /\ log' = Append(log, QueryErrorEntry(out.error))
    /\ UNCHANGED <<MODEL_NAME, tmpdir, collection, file, started>>

\* Faulty variant of AskRespond: the answered question is stored in the
\* collection before the response is returned.
AskRespondStoring(w) ==
    /\ req[w].kind = "ask"
    /\ req[w].pc = "GENERATING"
    /\ Set(w, [Enter(req[w], "RESPONDING") EXCEPT
                  !.response = [status |-> 200,
                                body |-> [question |-> req[w].q,
                                          answer |-> req[w].answer.response]]])
    /\ collection' = AppendNew(collection, <<Entry(req[w].q, <<req[w].q>>)>>)
    /\ UNCHANGED <<MODEL_NAME, tmpdir, file, log, started>>

\* return {"question": q, "answer": answer["response"]}
AskRespond(w) ==
    /\ req[w].kind = "ask"
    /\ req[w].pc = "GENERATING"
    /\ Set(w, [Enter(req[w], "RESPONDING") EXCEPT
                  !.response = [status |-> 200,
                                body |-> [question |-> req[w].q,
                                          answer |-> req[w].answer.response]]])
    /\ UNCHANGED <<MODEL_NAME, tmpdir, collection, file, log, started>>

(***************************************************************************)
(* POST /load-mitre                                                        *)
(***************************************************************************)
\* An exception the handler does not catch: the framework answers 500.
LoadFail(frame, text) ==
    [Enter(frame, "FAILED") EXCEPT
        !.raised = text, !.response = Http500("Internal Server Error")]

LoadStart(w) ==
    /\ Dispatch(w)
    /\ Set(w, [Enter(Idle, "STARTED") EXCEPT !.kind = "load"])
    /\ started' = started + 1
    /\ UNCHANGED <<MODEL_NAME, tmpdir, collection, file, log>>

\* r = requests.get(url): raises on a network error, returns the response
\* whatever its status code.
LoadFetch(w) ==
    /\ req[w].kind = "load"
    /\ req[w].pc = "STARTED"
    /\ LET frame == [req[w] EXCEPT !.nFetch = @ + 1]
       IN \/ Set(w, [LoadFail(frame, "ConnectionError") EXCEPT !.netError = TRUE])
          \/ \E status \in StatusCodes, content \in Bodies :
               Set(w, [Enter(frame, "FETCHED") EXCEPT
                          !.r = [status_code |-> status, content |-> content]])
    /\ UNCHANGED <<MODEL_NAME, tmpdir, collection, file, log, started>>

\* with open("./tmp/attack.json", "wb") as f: the file is created or
\* truncated; without the directory ./tmp the open raises.
LoadOpen(w) ==
    /\ req[w].kind = "load"
    /\ req[w].pc = "FETCHED"
    /\ \/ /\ tmpdir
          /\ file' = Truncate(file)
          /\ Set(w, Enter(req[w], "OPENED"))
       \/ /\ ~tmpdir
          /\ file' = file
          /\ Set(w, LoadFail(req[w], "FileNotFoundError"))
    /\ UNCHANGED <<MODEL_NAME, collection, tmpdir, log, started>>

\* f.write(r.content): the bytes become visible in the file as they are
\* copied, so the write is one step per token.
LoadWrite(w) ==
    /\ req[w].kind = "load"
    /\ req[w].pc = "OPENED"
    /\ req[w].wpos < Len(req[w].r.content)
    /\ file' = WriteToken(file, req[w].wpos + 1, req[w].r.content[req[w].wpos + 1])
    /\ Set(w, [req[w] EXCEPT !.wpos = @ + 1])
    /\ UNCHANGED <<MODEL_NAME, tmpdir, collection, log, started>>

\* The end of the with block: everything is written, the file is closed.
LoadClose(w) ==
    /\ req[w].kind = "load"
    /\ req[w].pc = "OPENED"
    /\ req[w].wpos = Len(req[w].r.content)
    /\ Set(w, Enter(req[w], "WRITTEN"))
    /\ UNCHANGED <<MODEL_NAME, tmpdir, collection, file, log, started>>

\* MitreAttackData("./tmp/attack.json") reading the file: the read takes
\* the bytes as it passes them, one step per token, up to the end of file.
LoadRead(w) ==
    /\ req[w].kind = "load"
    /\ req[w].pc = "WRITTEN"
    /\ Len(req[w].buf) < Len(file)
    /\ Set(w, [req[w] EXCEPT !.buf = Append(@, file[Len(@) + 1])])
    /\ UNCHANGED <<MODEL_NAME, tmpdir, collection, file, log, started>>

\* data = MitreAttackData("./tmp/attack.json"): at the end of file the bytes
\* read are parsed.
LoadParse(w) ==
    /\ req[w].kind = "load"
    /\ req[w].pc = "WRITTEN"
    /\ Len(req[w].buf) >= Len(file)
    /\ \/ /\ WellFormed(req[w].buf)
          /\ Set(w, [Enter(req[w], "PARSED") EXCEPT !.data = Parse(req[w].buf)])
       \/ /\ ~WellFormed(req[w].buf)
          /\ Set(w, LoadFail(req[w], "ParseError"))
    /\ UNCHANGED <<MODEL_NAME, tmpdir, collection, file, log, started>>

\* The loop over data.get_techniques(remove_revoked_deprecated=True),
\* collection.add(documents=docs, ids=ids), return {"loaded": len(docs)}
LoadAdd(w) ==
    /\ req[w].kind = "load"
    /\ req[w].pc = "PARSED"
    /\ LET techs == get_techniques(req[w].data, TRUE)
           docs  == BuildDocs(techs)
           ids   == BuildIds(techs)
           frame == [req[w] EXCEPT !.docs = docs, !.ids = ids, !.nAdd = @ + 1]
       IN \E out \in CollectionAdd(collection, docs, ids) :
            \/ /\ out.ok
               /\ collection' = out.value
               /\ Set(w, [Enter(frame, "RETURNED") EXCEPT
                             !.response = [status |-> 200,
                                           body |-> [loaded |-> Len(docs)]]])
            \/ /\ ~out.ok
               /\ collection' = collection
               /\ Set(w, LoadFail(frame, out.error))
    /\ UNCHANGED <<MODEL_NAME, tmpdir, file, log, started>>

(***************************************************************************)
(* The system.                                                             *)
(***************************************************************************)
\* What the persistent collection can hold when the process starts: nothing,
\* or the documents an earlier run loaded.
InitialCollections ==
    { <<>>,
      Entries(BuildDocs(<<"A3", "A4">>), BuildIds(<<"A3", "A4">>)) }

Init ==
    /\ \E env \in Environments :
         MODEL_NAME = Getenv(env, "MODEL_NAME", "tinyllama")
    /\ collection \in InitialCollections
    /\ tmpdir \in BOOLEAN
    /\ file = <<>>
    /\ log = <<StartupEntry>>
    /\ started = 0
    /\ req = [w \in Workers |-> Idle]

AskNext(w) ==
    \/ AskStart(w)
    \/ AskRetrieve(w)
    \/ AskAssemble(w)
    \/ AskGenerate(w)
    \/ AskRespond(w)

LoadNext(w) ==
    \/ LoadStart(w)
    \/ LoadFetch(w)
    \/ LoadOpen(w)
    \/ LoadWrite(w)
    \/ LoadClose(w)
    \/ LoadRead(w)
    \/ LoadParse(w)
    \/ LoadAdd(w)

Next == \E w \in Workers : AskNext(w) \/ LoadNext(w)

Spec == Init /\ [][Next]_vars

(***************************************************************************)
(* Properties.                                                             *)
(***************************************************************************)
AskRequests == {w \in Workers : req[w].kind = "ask"}

LoadRequests == {w \in Workers : req[w].kind = "load"}

\* C1: a failure of the retrieval call or of the generation call ends the
\* /ask request with HTTP 500 whose detail is the error text, never with a
\* 200 body, and within one request collection.query and ollama.generate
\* are each called at most once.
C1_AskFailureIs500NoRetry ==
    \A w \in AskRequests :
        /\ req[w].nQuery <= 1
        /\ req[w].nGenerate <= 1
        /\ req[w].raised # "" =>
             /\ req[w].pc = "FAILED"
             /\ req[w].response.status = 500
             /\ req[w].response.body.detail = req[w].raised
        /\ req[w].response.status = 200 => req[w].raised = ""

\* One request failed in retrieval and another in generation.
C1_Witness ==
    \E v, w \in AskRequests :
        /\ req[v].pc = "FAILED" /\ req[v].nQuery = 1 /\ req[v].nGenerate = 0
        /\ req[v].raised = "store unavailable"
        /\ req[w].pc = "FAILED" /\ req[w].nQuery = 1 /\ req[w].nGenerate = 1
        /\ req[w].raised = "generation engine unreachable"

\* C2: no step of a /ask request changes the collection, whatever the
\* request's outcome.
C2_AskNeverWritesStore ==
    [][(\E w \in Workers : AskNext(w)) => collection' = collection]_vars

\* A /ask request has been answered from a collection that holds documents,
\* and another has failed.
C2_Witness ==
    /\ collection # <<>>
    /\ \E v, w \in AskRequests :
         /\ req[v].pc = "RESPONDING"
         /\ req[w].pc = "FAILED"

\* The technique records of a bundle that are neither revoked nor deprecated.
ActiveTechniques(data) ==
    SelectSeq(data, LAMBDA o : /\ ObjType(o) = "attack-pattern"
                               /\ ~ObjRevoked(o)
                               /\ ~ObjDeprecated(o))

\* C3: a successful /load-mitre has submitted to the store exactly one
\* document per technique record of the parsed bundle that is neither revoked
\* nor deprecated, each under that record's identifier, and "loaded" is the
\* number of documents submitted.
C3_LoadSubmitsActiveTechniques ==
    \A w \in LoadRequests :
        req[w].pc = "RETURNED" =>
            LET active == ActiveTechniques(req[w].data)
            IN /\ req[w].nAdd = 1
               /\ Len(req[w].docs) = Len(active)
               /\ Len(req[w].ids) = Len(active)
               /\ \A i \in 1..Len(active) :
                    /\ req[w].ids[i] = ObjId(active[i])
                    /\ req[w].docs[i] = DocText(active[i])
               /\ \A o \in Range(req[w].data) :
                    (ObjRevoked(o) \/ ObjDeprecated(o)) =>
                        DocText(o) \notin Range(req[w].docs)
               /\ req[w].response.status = 200
               /\ req[w].response.body.loaded = Len(req[w].docs)

\* A load of a bundle with one active and one revoked record has returned.
C3_Witness ==
    \E w \in LoadRequests :
        /\ req[w].pc = "RETURNED"
        /\ req[w].data = <<"A1", "Rev">>
        /\ req[w].ids = <<"T1">>
        /\ req[w].response.body.loaded = 1

FetchFailed(w) ==
    \/ req[w].netError
    \/ req[w].nFetch >= 1 /\ req[w].r.status_code # 0 /\ req[w].r.status_code # 200

\* C5: when the dataset fetch fails, by a network error or by a non-success
\* status, the request fails: it ends with an error answer, never with a
\* {"loaded": n} success, and the fetch is attempted exactly once.  (The
\* claim also asks for the error to be a fetch error; the code does not even
\* meet the weaker statement checked here.)
C5_FetchFailureFailsRequest ==
    \A w \in LoadRequests :
        /\ req[w].nFetch <= 1
        /\ (FetchFailed(w) /\ req[w].pc \in Terminal) =>
             /\ req[w].pc = "FAILED"
             /\ req[w].response.status = 500

\* C6: when the collection is empty, retrieval yields an empty sequence and
\* no error of its own: the request fails in retrieval only if the store
\* itself is unavailable, the context is the empty string, and the request
\* goes on to generation.
C6_EmptyCollectionRetrieval ==
    \A w \in AskRequests :
        (req[w].nQuery = 1 /\ req[w].sawEmpty) =>
            /\ (req[w].pc = "FAILED" /\ req[w].nGenerate = 0) =>
                   req[w].raised = "store unavailable"
            /\ req[w].retrieved =>
                   /\ Len(req[w].results) = 1
                   /\ req[w].results[1] = <<>>
            /\ req[w].pc = "ASSEMBLING" =>
                   /\ req[w].context = <<>>
                   /\ ENABLED AskGenerate(w)
            /\ req[w].nGenerate = 1 => req[w].context = <<>>

\* A request that queried the empty collection has reached generation with an
\* empty context.
C6_Witness ==
    \E w \in AskRequests :
        /\ req[w].sawEmpty
        /\ req[w].retrieved
        /\ req[w].pc = "GENERATING"
        /\ req[w].context = <<>>
        /\ req[w].prompt = <<PROMPT_HEAD, PROMPT_QUESTION, req[w].q, PROMPT_TAIL>>

\* The order of the states of a /ask request.
AskOrder == <<"RECEIVED", "RETRIEVING", "ASSEMBLING", "GENERATING", "RESPONDING">>

\* A step of the /ask request of worker w after its arrival.
AskStep(w) ==
    AskRetrieve(w) \/ AskAssemble(w) \/ AskGenerate(w) \/ AskRespond(w)

\* C7: a /ask request passes through RECEIVED, RETRIEVING, ASSEMBLING,
\* GENERATING, RESPONDING in that order, none skipped or repeated; generation
\* is invoked only after retrieval returned; FAILED is entered only from
\* RETRIEVING or GENERATING; RESPONDING and FAILED are the only states in
\* which the request takes no further step.
C7_AskStateOrder ==
    \A w \in AskRequests :
        LET t == req[w].trace
            n == Len(t)
        IN /\ n >= 1
           /\ t[n] = req[w].pc
           /\ \/ /\ n <= Len(AskOrder)
                 /\ t = SubSeq(AskOrder, 1, n)
              \/ /\ n >= 2
                 /\ t[n] = "FAILED"
                 /\ t[n - 1] \in {"RETRIEVING", "GENERATING"}
                 /\ SubSeq(t, 1, n - 1) = SubSeq(AskOrder, 1, n - 1)
           /\ req[w].nGenerate >= 1 => req[w].retrieved
           /\ (req[w].pc \in {"RESPONDING", "FAILED"}) <=> ~ENABLED AskStep(w)

\* One request has gone through all five states and another has failed in
\* generation.
C7_Witness ==
    \E v, w \in AskRequests :
        /\ req[v].trace = AskOrder
        /\ req[w].trace = <<"RECEIVED", "RETRIEVING", "ASSEMBLING", "GENERATING", "FAILED">>

\* C8: once a /ask request has issued its store query, the log holds an entry
\* that records the request's question.
C8_QuestionLoggedBeforeQuery ==
    \A w \in AskRequests :
        req[w].nQuery >= 1 =>
            \E i \in 1..Len(log) : req[w].q \in Range(log[i].message)

\* The load request of worker w has got past MitreAttackData(...).
Parsed(w) == req[w].pc \in {"PARSED", "RETURNED"} \/ req[w].nAdd >= 1

\* C9: every /load-mitre request parses exactly the bytes its own fetch
\* returned: what it parsed is the bundle of its own response, and it fails
\* in parsing only if its own response is not a bundle.
C9_LoadParsesOwnBytes ==
    \A w \in LoadRequests :
        /\ Parsed(w) =>
             /\ WellFormed(req[w].r.content)
             /\ req[w].data = Parse(req[w].r.content)
        /\ req[w].raised = "ParseError" => ~WellFormed(req[w].r.content)

\* C10: the prompt is the template around at most 3 retrieved documents, in
\* the order the store returned them, joined by a blank line, followed by the
\* question verbatim; two requests with the same question and the same
\* retrieved documents have the same prompt.
C10_PromptIsPureTemplate ==
    /\ \A w \in AskRequests :
         req[w].prompt # <<>> =>
            LET d == req[w].results[1]
                joined ==
                    CASE Len(d) = 0 -> <<>>
                      [] Len(d) = 1 -> d[1]
                      [] Len(d) = 2 -> d[1] \o <<"\n\n">> \o d[2]
                      [] Len(d) = 3 -> d[1] \o <<"\n\n">> \o d[2] \o <<"\n\n">> \o d[3]
                      [] OTHER -> <<"more than 3 documents">>
            IN /\ Len(d) <= 3
               /\ req[w].prompt =
                     <<PROMPT_HEAD>> \o joined \o <<PROMPT_QUESTION, req[w].q, PROMPT_TAIL>>
    /\ \A v, w \in AskRequests :
         (/\ req[v].prompt # <<>>
          /\ req[w].prompt # <<>>
          /\ req[v].q = req[w].q
          /\ req[v].results = req[w].results) => req[v].prompt = req[w].prompt

\* A request has assembled its prompt from 3 documents out of a collection
\* of 4.
C10_Witness ==
    \E w \in AskRequests :
        /\ Len(collection) = 4
        /\ req[w].retrieved
        /\ Len(req[w].results[1]) = 3
        /\ req[w].prompt # <<>>
        /\ Len(req[w].prompt) = 4 + 3 * 6 + 2

============================================================================
